---- MODULE Spec2Model ----
(***************************************************************************)
(* Adaptive Process Booster (src/adaptive_process_booster.py).             *)
(*                                                                         *)
(* Two threads share the AdaptiveProcessBooster object: the daemon thread  *)
(* running monitor_processes, and the Tk main thread running the event     *)
(* handlers and the callbacks handed over with root.after.  The model      *)
(* gives each thread a program counter and lets the two interleave at the  *)
(* reads and writes of the shared attributes.                              *)
(*                                                                         *)
(* Numbers: percentages are integers; scores and thresholds are kept in    *)
(* tenths (score 74.0 is 740), so 0.6*cpu + 0.4*ram is 6*cpu + 4*ram.      *)
(***************************************************************************)
EXTENDS Integers, Sequences, FiniteSets, TLC

(***************************************************************************)
(* Bounds of the model.                                                    *)
(***************************************************************************)
\* processes that process_iter enumerates, pids 1..NumProcs
NumProcs == 2
\* monitoring passes a behaviour may start
MaxPass == 2
\* pending after(500) timers of on_tree_click
MaxTimers == 1
\* calls of save_settings in a behaviour
MaxSaves == 1
\* Boost / Kill commands given in a behaviour
MaxCmds == 2

(***************************************************************************)
(* Values.                                                                 *)
(***************************************************************************)
\* psutil gives None for a field it could not read; `x or 0.0` reads it as 0
None == -1
\* selected_pid = None
NoPid == 0
Pids == 1..NumProcs
\* os.getpid(): the application's own process, the one psutil.Process(None)
\* stands for (lines 51 and 86 with pid = None); it is not one of the
\* processes whose rows the modelled lists hold
OwnPid == NumProcs + 1
\* cpu_percent / memory_percent values process_iter may report
CpuVals == {50, 90}
RamVals == {50}
\* the attribute last_process_data does not exist before the first publish
Unset == [pass |-> 0, data |-> << >>]
NoStats == [pass |-> 0, cpu |-> 0, memory_percent |-> 0,
            disk_percent |-> 0, disk_total |-> 0, disk_used |-> 0, disk_free |-> 0]
\* what psutil.disk_usage reports when it works
DiskSample == [percent |-> 70, total |-> 8, used |-> 5, free |-> 3]
\* (a fallback that repeats an earlier sample)
DiskFallback_LastGood == DiskSample
\* the fallback object of lines 166-171
DiskFallback == [percent |-> 0, total |-> 0, used |-> 0, free |-> 0]

\* PRIORITY_LEVELS['Linux'] / ['Windows'] (the Windows classes by their
\* psutil constant values)
PRIORITY_LEVELS ==
  [Windows |-> [name \in {"Realtime", "High", "Above Normal", "Normal",
                          "Below Normal", "Low"} |->
                  CASE name = "Realtime" -> 256
                    [] name = "High" -> 128
                    [] name = "Above Normal" -> 32768
                    [] name = "Normal" -> 32
                    [] name = "Below Normal" -> 16384
                    [] OTHER -> 64],
   Linux |-> [name \in {"Very High", "High", "Above Normal", "Normal",
                        "Below Normal", "Low"} |->
                  CASE name = "Very High" -> -10
                    [] name = "High" -> -5
                    [] name = "Above Normal" -> -2
                    [] name = "Normal" -> 0
                    [] name = "Below Normal" -> 5
                    [] OTHER -> 10]]

\* the levels the settings combobox is exercised with (both are keys of
\* either platform's map)
SettingsLevels == {"High", "Low"}
\* texts typed into the threshold entry, character by character
ThresholdTexts == { <<"5", "0", ".", "0">>, <<"7", "4">>, <<"a", "b">> }
\* texts typed into the search entry: nothing, or the digit of pid 1
SearchTexts == {"", "1"}
\* the entries of the filter and sort comboboxes that are exercised
FilterChoices == {"All", "High Score (>50)"}
SortChoices == {"Score", "PID"}
\* texts typed into the priority dialog of boost_selected_process; "Turbo"
\* is a key of neither platform's map, "Very High" of the Linux map only
LevelAnswers == {"High", "Low", "Very High", "Turbo"}
\* the priority of a process nobody has changed: nice 0, or
\* NORMAL_PRIORITY_CLASS
NormalPriority(plat) == PRIORITY_LEVELS[plat]["Normal"]
\* outcomes of the OS calls inside boost_process_priority
BoostOutcomes == {"ok", "NoSuchProcess", "AccessDenied"}

VARIABLES
  \* ---- attributes of AdaptiveProcessBooster
  monitoring_active, auto_boost_enabled, auto_boost_threshold, auto_boost_level,
  action_history, history_text, pause_updates, last_process_data, selected_pid,
  \* ---- Tk: root window, after-queue, pending after(500) timers, widgets
  root_alive, after_queue, timers, tree, stats_shown,
  \* ---- Tk main thread: position inside save_settings and its locals
  uipc, sv,
  \* ---- monitor thread: position, loop index, locals
  bgpc, idx, cur, processes_data,
  \* ---- history (not program state): passes started, threads started,
  \*      what each evaluation of the current pass read and did, every
  \*      entry ever logged, number of save_settings calls
  passNo, threads_started, decisions, not_found, cfg_changed, appended, saves,
  \*      and how the disk_usage call went in the monitor's latest step
  \*      ("none" when that step made no such call)
  disk_res,
  \* ---- the host: the cpu_percent / memory_percent values process_iter
  \*      may report in this run
  readings,
  \* ---- the toolbar of the process tab: search text, filter and sort
  \*      comboboxes, and the direction flipped by a click on a heading
  search_var, filter_var, sort_var, sort_reverse,
  \* ---- the operating system: sys.platform and, for each pid, whether the
  \*      process is alive, whether the caller is denied access to it, its
  \*      priority (nice value or priority class) and whether it has been
  \*      sent the terminate request
  platform, procs,
  \* ---- main thread: the local `process` of a kill_process in progress
  cmd,
  \* ---- history: one record for each finished call of
  \*      boost_process_priority or kill_process from a command
  calls

vars == << monitoring_active, auto_boost_enabled, auto_boost_threshold,
           auto_boost_level, action_history, history_text, pause_updates,
           last_process_data, selected_pid, root_alive, after_queue, timers,
           tree, stats_shown, uipc, sv, bgpc, idx, cur, processes_data,
           passNo, threads_started, decisions, not_found, cfg_changed,
           appended, saves, disk_res, readings, search_var, filter_var,
           sort_var, sort_reverse, platform, procs, cmd, calls >>

appVars == << monitoring_active, pause_updates, last_process_data, selected_pid,
              root_alive, timers, tree, stats_shown >>
cfgVars == << auto_boost_enabled, auto_boost_threshold, auto_boost_level >>
logVars == << action_history, history_text, appended >>
uiVars == << uipc, sv, saves >>
bgVars == << bgpc, idx, cur, processes_data, passNo, threads_started,
             decisions, not_found, disk_res >>
\* what the handlers modelled first (monitor, save_settings, on_closing, the
\* after callbacks) never write
extVars == << readings, search_var, filter_var, sort_var, sort_reverse,
             platform, procs, cmd, calls >>

(***************************************************************************)
(* Pure functions.                                                         *)
(***************************************************************************)
\* `value or 0.0`
OrZero(v) == IF v = None \/ v = 0 THEN 0 ELSE v

\* (the two weights exchanged)
calculate_score_SwappedWeights(cpu_percent, ram_percent) ==
  4 * cpu_percent + 6 * ram_percent
\* calculate_score, in tenths
calculate_score(cpu_percent, ram_percent) == 6 * cpu_percent + 4 * ram_percent

Digits == {"0", "1", "2", "3", "4", "5", "6", "7", "8", "9"}
DigitVal(c) ==
  CASE c = "0" -> 0 [] c = "1" -> 1 [] c = "2" -> 2 [] c = "3" -> 3
    [] c = "4" -> 4 [] c = "5" -> 5 [] c = "6" -> 6 [] c = "7" -> 7
    [] c = "8" -> 8 [] OTHER -> 9

RECURSIVE IntOf(_)
IntOf(s) == IF s = << >> THEN 0
            ELSE 10 * IntOf(SubSeq(s, 1, Len(s) - 1)) + DigitVal(s[Len(s)])

AllDigits(s) == \A i \in 1..Len(s) : s[i] \in Digits

\* float(text) for texts of the form d+ or d+.d, in tenths;
\* ok = FALSE is ValueError
ParseFloat(s) ==
  LET dots == {i \in 1..Len(s) : s[i] = "."} IN
  IF dots = {} THEN
    IF Len(s) > 0 /\ AllDigits(s)
    THEN [ok |-> TRUE, val |-> 10 * IntOf(s)]
    ELSE [ok |-> FALSE, val |-> 0]
  ELSE
    LET d == CHOOSE i \in dots : TRUE
        ip == SubSeq(s, 1, d - 1)
        fp == SubSeq(s, d + 1, Len(s))
    IN IF Cardinality(dots) = 1 /\ Len(ip) > 0 /\ Len(fp) = 1
          /\ AllDigits(ip) /\ AllDigits(fp)
       THEN [ok |-> TRUE, val |-> 10 * IntOf(ip) + IntOf(fp)]
       ELSE [ok |-> FALSE, val |-> 0]

\* deque(maxlen=100)
HistoryMaxLen == 100
\* (a bounded list that refuses the new entry when full)
DequeAppend_DropsNewest(d, x) ==
  IF Len(d) >= HistoryMaxLen THEN d ELSE Append(d, x)
DequeAppend(d, x) ==
  IF Len(d) >= HistoryMaxLen THEN Append(Tail(d), x) ELSE Append(d, x)

\* boost_process_priority: the value it returns for each outcome of the OS
\* calls; every exception is caught and turned into False
boost_process_priority(outcome) == outcome = "ok"

\* list.sort(key=score, reverse=True): stable, descending
RECURSIVE SortByScoreDesc(_)
InsertDesc(sorted, p) ==
  LET k == Cardinality({i \in 1..Len(sorted) : sorted[i].score >= p.score})
  IN SubSeq(sorted, 1, k) \o << p >> \o SubSeq(sorted, k + 1, Len(sorted))
SortByScoreDesc(s) ==
  IF s = << >> THEN << >>
  ELSE InsertDesc(SortByScoreDesc(SubSeq(s, 1, Len(s) - 1)), s[Len(s)])

\* lines 981-983: the search text is looked for in str(pid) (pids are single
\* digits here) and in the name, which holds no digit
MatchesSearch(p, text) == text = "" \/ (text = "1" /\ p.pid = 1)

\* lines 986-992
PassesFilter(p, filter_type) ==
  CASE filter_type = "High CPU (>50%)" -> p.cpu > 50
    [] filter_type = "High RAM (>50%)" -> p.ram > 50
    [] filter_type = "High Score (>50)" -> p.score > 500
    [] OTHER -> TRUE

\* list.sort(key=pid, reverse=rev): stable both ways
RECURSIVE SortByPid(_, _)
InsertByPid(sorted, p, rev) ==
  LET k == Cardinality({i \in 1..Len(sorted) :
                          IF rev THEN sorted[i].pid >= p.pid
                          ELSE sorted[i].pid <= p.pid})
  IN SubSeq(sorted, 1, k) \o << p >> \o SubSeq(sorted, k + 1, Len(sorted))
SortByPid(s, rev) ==
  IF s = << >> THEN << >>
  ELSE InsertByPid(SortByPid(SubSeq(s, 1, Len(s) - 1), rev), s[Len(s)], rev)

\* lines 979-1008: what update_process_list shows of `data`
ShownList(data, text, filter_type, sort_by, rev) ==
  LET kept == SelectSeq(data, LAMBDA p : MatchesSearch(p, text)
                                          /\ PassesFilter(p, filter_type))
  IN IF sort_by = "Score" THEN SortByScoreDesc(kept)
     ELSE SortByPid(kept, rev)

Cfg == [e |-> auto_boost_enabled, t |-> auto_boost_threshold,
        l |-> auto_boost_level]


\* the configuration save_settings will leave, given what it was called with
SaveResult(old, e, txt, lvl) ==
  IF ParseFloat(txt).ok
  THEN [e |-> e, t |-> ParseFloat(txt).val, l |-> lvl]
  ELSE [e |-> e, t |-> old.t, l |-> old.l]

(***************************************************************************)
(* __init__: the state when the constructor returns.  setup_gui has built  *)
(* the widgets, start_monitoring has started the one monitor thread and    *)
(* logged "Application started".                                           *)
(***************************************************************************)
StartedEntry == [n |-> 1, kind |-> "started", pid |-> NoPid]

NoCur == [pid |-> NoPid, raw_cpu |-> 0, raw_ram |-> 0, cpu |-> 0, ram |-> 0,
          score |-> 0, t |-> None, cands |-> {}]

\* the attributes and thread positions apart from the settings and the log
InitRest ==
  /\ monitoring_active = TRUE
  /\ pause_updates = FALSE
  /\ last_process_data = Unset
  /\ selected_pid = NoPid
  /\ root_alive = TRUE
  /\ after_queue = << >>
  /\ timers = 0
  /\ tree = << >>
  /\ stats_shown = NoStats
  /\ uipc = "idle"
  /\ sv = [txt |-> << >>, lvl |-> "High",
           old |-> [e |-> FALSE, t |-> 500, l |-> "High"]]
  /\ saves = 0
  /\ bgpc = "loop"
  /\ idx = 1
  /\ cur = NoCur
  /\ processes_data = << >>
  /\ passNo = 0
  /\ threads_started = 1
  /\ decisions = << >>
  /\ not_found = {}
  /\ cfg_changed = FALSE
  /\ disk_res = "none"
  /\ search_var = ""
  /\ filter_var = "All"
  /\ sort_var = "Score"
  /\ sort_reverse = FALSE

NoCmd == [pid |-> NoPid]

\* the readings of a host on which every field can be read; a Linux host
\* whose processes are all alive, accessible and at normal priority
InitHost ==
  /\ readings = [cpu |-> CpuVals, ram |-> RamVals]
  /\ platform = "Linux"
  /\ procs = [pid \in Pids \cup {OwnPid} |-> [alive |-> TRUE, denied |-> FALSE,
                                 nice |-> NormalPriority("Linux"),
                                 signalled |-> FALSE]]
  /\ cmd = NoCmd
  /\ calls = << >>

\* lines 410-412
InitSettings ==
  /\ auto_boost_enabled = FALSE
  /\ auto_boost_threshold = 500
  /\ auto_boost_level = "High"

\* lines 415 and 1195
InitHistory ==
  /\ action_history = << StartedEntry >>
  /\ history_text = << StartedEntry >>
  /\ appended = << StartedEntry >>

Init == InitSettings /\ InitHistory /\ InitRest /\ InitHost

(***************************************************************************)
(* log_action(message).  The deque append comes first; the insert into the *)
(* history widget follows and raises when the widget is gone (gui_ok =     *)
(* FALSE), after the entry is already in action_history.                   *)
(***************************************************************************)
LogAction(kind, pid, gui_ok) ==
  LET entry == [n |-> Len(appended) + 1, kind |-> kind, pid |-> pid] IN
  /\ action_history' = DequeAppend(action_history, entry)
  /\ appended' = Append(appended, entry)
  /\ history_text' = IF gui_ok THEN Append(history_text, entry) ELSE history_text

(***************************************************************************)
(* monitor_processes, the daemon thread.                                   *)
(***************************************************************************)
\* line 155: the loop condition
\* (while True)
WhileCondition_Always == TRUE
WhileCondition == monitoring_active

\* where the handler of line 226 leaves the thread: sleep, then continue
\* (the try placed around the loop instead of inside it)
ExceptHandlerPc_Escapes == "terminated"
\* (a handler that goes back to the loop head without the sleep of line 227)
ExceptHandlerPc_NoSleep == "loop"
ExceptHandlerPc == "except_sleep"

\* lines 215-218: a process whose sampling raised is skipped; the list is
\* left as it was and the loop goes on with the next process
\* (a handler that keeps a defaulted entry for the process)
OnSampleError_KeepsPartial(data, pid) ==
  Append(data, [pid |-> pid, cpu |-> 0, ram |-> 0, score |-> 0])
OnSampleError(data, pid) == data
SampleErrorPc == "iter"

\* line 200, right operand of `and`
\* (>= written for >)
ScoreExceeds_AtLeast(score, threshold) == score >= threshold
ScoreExceeds(score, threshold) == score > threshold

\* lines 224: after the list is handed over the thread sleeps
\* (the sleep left out)
AfterPublishPc_NoSleep == "loop"
AfterPublishPc == "sleep"

\* lines 201-214: the boost and its log entry sit in their own try whose
\* handler passes, so the append of line 207 follows whether or not
\* log_action raised (gui_ok = FALSE: the history widget is gone)
\* (without the inner try the exception reaches line 217 and the process
\* is dropped from the list)
AfterBoostData_DropsOnLogError(data, entry, gui_ok) ==
  IF gui_ok THEN Append(data, entry) ELSE data
AfterBoostData(data, entry, gui_ok) == Append(data, entry)

\* line 155: while gui_app.monitoring_active
Monitor_While ==
  /\ bgpc = "loop"
  /\ IF WhileCondition
     THEN /\ passNo < MaxPass
          /\ bgpc' = "sys"
          /\ passNo' = passNo + 1
          /\ processes_data' = << >>
          /\ decisions' = << >>
          /\ not_found' = {}
          /\ cfg_changed' = FALSE
          /\ disk_res' = "none"
          /\ idx' = 1
          /\ cur' = NoCur
     ELSE /\ bgpc' = "terminated"
          /\ disk_res' = "none"
          /\ UNCHANGED << passNo, processes_data, decisions, not_found,
                          cfg_changed, idx, cur >>
  /\ UNCHANGED << appVars, cfgVars, logVars, uiVars, after_queue,
                  threads_started >>
  /\ UNCHANGED extVars

\* lines 157-184: system metrics, then root.after(0, update_system_stats, ...)
Monitor_SystemStats ==
  /\ bgpc = "sys"
  /\ \E res \in {"ok", "disk_fail", "raise"} :
       /\ disk_res' = res
       /\ IF res = "raise"
          THEN \* psutil.cpu_percent / virtual_memory raised
               /\ bgpc' = ExceptHandlerPc
               /\ UNCHANGED after_queue
          ELSE LET disk == IF res = "disk_fail" THEN DiskFallback
                           ELSE DiskSample
                   stats == [pass |-> passNo, cpu |-> 30,
                             memory_percent |-> 40,
                             disk_percent |-> disk.percent,
                             disk_total |-> disk.total,
                             disk_used |-> disk.used,
                             disk_free |-> disk.free]
               IN IF root_alive
                  THEN /\ after_queue' = Append(after_queue,
                             [fn |-> "update_system_stats", pass |-> passNo,
                              stats |-> stats, data |-> << >>])
                       /\ bgpc' = "iter"
                  ELSE \* root.after raises: the application has been
                       \* destroyed
                       /\ bgpc' = ExceptHandlerPc
                       /\ UNCHANGED after_queue
  /\ UNCHANGED << appVars, cfgVars, logVars, uiVars, idx, cur, processes_data,
                  passNo, threads_started, decisions, not_found, cfg_changed >>
  /\ UNCHANGED extVars

\* lines 202-203: log_action follows the call whatever it returned
\* (the entry written only when the call returned True)
LogsAfterBoost_OnlyOnSuccess(ret) == ret
LogsAfterBoost(ret) == TRUE

\* the record appended at lines 207-214
ProcEntry(c) == [pid |-> c.pid, cpu |-> c.cpu, ram |-> c.ram, score |-> c.score]

\* lines 187-200: the next process of process_iter, its score, and the read
\* of auto_boost_enabled (left operand of `and`)
Monitor_NextProcess ==
  /\ bgpc = "iter"
  /\ idx <= NumProcs
  /\ \/ \* the process is sampled
        /\ UNCHANGED not_found
        /\ \E cpu \in readings.cpu, ram \in readings.ram :
          LET cpu_percent == OrZero(cpu)
              ram_percent == OrZero(ram)
              score == calculate_score(cpu_percent, ram_percent)
              cands == IF uipc = "idle" THEN {Cfg}
                       ELSE {sv.old, SaveResult(sv.old, auto_boost_enabled,
                                                sv.txt, sv.lvl)}
              c == [pid |-> idx, raw_cpu |-> cpu, raw_ram |-> ram,
                    cpu |-> cpu_percent, ram |-> ram_percent,
                    score |-> score, t |-> None, cands |-> cands]
          IN IF auto_boost_enabled
             THEN /\ bgpc' = "rd_thr"
                  /\ cur' = c
                  /\ UNCHANGED << idx, processes_data, decisions >>
             ELSE /\ processes_data' = Append(processes_data, ProcEntry(c))
                  /\ decisions' = Append(decisions,
                       [pid |-> idx, raw_cpu |-> cpu, raw_ram |-> ram,
                        score |-> score, e |-> FALSE, t |-> None,
                        l |-> "unread", called |-> FALSE, ok |-> FALSE,
                        logged |-> FALSE, cands |-> cands])
                  /\ idx' = idx + 1
                  /\ UNCHANGED << bgpc, cur >>
     \/ \* the process is gone: NoSuchProcess, handled at lines 215-216
        /\ processes_data' = OnSampleError(processes_data, idx)
        /\ not_found' = not_found \cup {idx}
        /\ bgpc' = SampleErrorPc
        /\ idx' = idx + 1
        /\ UNCHANGED << cur, decisions >>
     \/ \* the enumeration itself raises: handled at line 226
        /\ bgpc' = ExceptHandlerPc
        /\ UNCHANGED << idx, cur, processes_data, decisions, not_found >>
  /\ UNCHANGED << appVars, cfgVars, logVars, uiVars, after_queue, passNo,
                  threads_started, cfg_changed >>
  /\ UNCHANGED extVars
  /\ disk_res' = "none"

\* line 200: the read of auto_boost_threshold and the comparison
Monitor_ReadThreshold ==
  /\ bgpc = "rd_thr"
  /\ IF ScoreExceeds(cur.score, auto_boost_threshold)
     THEN /\ bgpc' = "boost"
          /\ cur' = [cur EXCEPT !.t = auto_boost_threshold]
          /\ UNCHANGED << idx, processes_data, decisions >>
     ELSE /\ processes_data' = Append(processes_data, ProcEntry(cur))
          /\ decisions' = Append(decisions,
               [pid |-> cur.pid, raw_cpu |-> cur.raw_cpu,
                raw_ram |-> cur.raw_ram, score |-> cur.score, e |-> TRUE,
                t |-> auto_boost_threshold, l |-> "unread", called |-> FALSE,
                ok |-> FALSE, logged |-> FALSE, cands |-> cur.cands])
          /\ idx' = idx + 1
          /\ bgpc' = "iter"
          /\ cur' = NoCur
  /\ UNCHANGED << appVars, cfgVars, logVars, uiVars, after_queue, passNo,
                  threads_started, not_found, cfg_changed >>
  /\ UNCHANGED extVars
  /\ disk_res' = "none"

\* lines 201-214: the read of auto_boost_level, boost_process_priority (its
\* result is not looked at), log_action, and the append to processes_data
Monitor_AutoBoost ==
  /\ bgpc = "boost"
  /\ \E outcome \in BoostOutcomes :
       LET ret == boost_process_priority(outcome) IN
       /\ IF LogsAfterBoost(ret)
          THEN LogAction("auto", cur.pid, root_alive)
          ELSE UNCHANGED logVars
       /\ decisions' = Append(decisions,
            [pid |-> cur.pid, raw_cpu |-> cur.raw_cpu, raw_ram |-> cur.raw_ram,
             score |-> cur.score, e |-> TRUE, t |-> cur.t,
             l |-> auto_boost_level, called |-> TRUE, ok |-> ret,
             logged |-> Len(appended') > Len(appended), cands |-> cur.cands])
  /\ processes_data' = AfterBoostData(processes_data, ProcEntry(cur), root_alive)
  /\ idx' = idx + 1
  /\ bgpc' = "iter"
  /\ cur' = NoCur
  /\ UNCHANGED << appVars, cfgVars, uiVars, after_queue, passNo,
                  threads_started, not_found, cfg_changed >>
  /\ UNCHANGED extVars
  /\ disk_res' = "none"

\* lines 187, 221: the iteration is over; root.after(0, update_process_list, ...)
Monitor_Publish ==
  /\ bgpc = "iter"
  /\ idx > NumProcs
  /\ IF root_alive
     THEN /\ after_queue' = Append(after_queue,
                [fn |-> "update_process_list", pass |-> passNo,
                 stats |-> NoStats, data |-> processes_data])
          /\ bgpc' = AfterPublishPc
     ELSE /\ bgpc' = ExceptHandlerPc
          /\ UNCHANGED after_queue
  /\ UNCHANGED << appVars, cfgVars, logVars, uiVars, idx, cur, processes_data,
                  passNo, threads_started, decisions, not_found, cfg_changed >>
  /\ UNCHANGED extVars
  /\ disk_res' = "none"

\* lines 224 and 227-228: time.sleep(1), then back to the loop condition
Monitor_Sleep ==
  /\ bgpc \in {"sleep", "except_sleep"}
  /\ bgpc' = "loop"
  /\ UNCHANGED << appVars, cfgVars, logVars, uiVars, after_queue, idx, cur,
                  processes_data, passNo, threads_started, decisions,
                  not_found, cfg_changed >>
  /\ UNCHANGED extVars
  /\ disk_res' = "none"

(***************************************************************************)
(* The Tk main thread.  A handler runs to its end before the next event    *)
(* is taken; the monitor thread runs between any two of its statements.    *)
(***************************************************************************)
UiReady == root_alive /\ uipc = "idle"
\* the event loop is dispatching: mainloop between two handlers, or the
\* nested loop of a modal dialog a handler is waiting in (askstring, line
\* 923; askyesno, line 957), which runs the after-callbacks and timers that
\* come due while the main window takes no input
LoopRuns == root_alive /\ uipc \in {"idle", "boost_dialog", "kill_confirm"}

\* update_system_stats: the labels and progress bars take the values of
\* `stats`
update_system_stats(stats) ==
  /\ stats_shown' = stats
  /\ UNCHANGED << last_process_data, tree, selected_pid >>

\* line 976: last_process_data becomes a copy of the list as it was passed
\* in, taken before the search, the filter and the in-place sort of lines
\* 981-1006 produce the list that is shown
\* (the copy taken after them)
StoredCopy_AfterSort(data, shown) == shown
StoredCopy(data, shown) == data

\* update_process_list, with the toolbar values it reads given
UpdateList(data, pass, text, filter_type, sort_by, rev) ==
  IF pause_updates
  THEN UNCHANGED << last_process_data, tree, selected_pid, stats_shown >>
  ELSE LET shown == ShownList(data, text, filter_type, sort_by, rev)
           still == \E i \in 1..Len(shown) : shown[i].pid = selected_pid
       IN /\ last_process_data' = [pass |-> pass,
                                   data |-> StoredCopy(data, shown)]
          /\ tree' = shown
          /\ selected_pid' = IF selected_pid # NoPid /\ ~still THEN NoPid
                             ELSE selected_pid
          /\ UNCHANGED stats_shown

update_process_list(data, pass) ==
  UpdateList(data, pass, search_var, filter_var, sort_var, sort_reverse)

\* the oldest pending after(0, ...) callback and the callbacks left
\* (the newest taken first)
AfterPop_Newest(q) == [ev |-> q[Len(q)], rest |-> SubSeq(q, 1, Len(q) - 1)]
AfterPop(q) == [ev |-> Head(q), rest |-> Tail(q)]

\* the main loop runs the oldest after(0, ...) callback
Tk_RunCallback ==
  /\ LoopRuns
  /\ after_queue # << >>
  /\ LET ev == AfterPop(after_queue).ev IN
       IF ev.fn = "update_system_stats"
       THEN update_system_stats(ev.stats)
       ELSE update_process_list(ev.data, ev.pass)
  /\ after_queue' = AfterPop(after_queue).rest
  /\ UNCHANGED << monitoring_active, pause_updates, root_alive, timers,
                  cfgVars, logVars, uiVars, bgVars, cfg_changed >>
  /\ UNCHANGED extVars

\* on_tree_click
on_tree_click ==
  /\ UiReady
  /\ timers < MaxTimers
  /\ pause_updates' = TRUE
  /\ timers' = timers + 1
  /\ UNCHANGED << monitoring_active, last_process_data, selected_pid, root_alive,
                  tree, stats_shown, after_queue, cfgVars, logVars, uiVars,
                  bgVars, cfg_changed >>
  /\ UNCHANGED extVars

\* line 879: what the lambda handed to root.after(500, ...) leaves in
\* pause_updates
\* (a lambda that sets nothing)
PauseAfterTimer_Unchanged == pause_updates
PauseAfterTimer == FALSE

\* the lambda of on_tree_click, 500 ms later
Tk_RunTimer ==
  /\ LoopRuns
  /\ timers > 0
  /\ pause_updates' = PauseAfterTimer
  /\ timers' = timers - 1
  /\ UNCHANGED << monitoring_active, last_process_data, selected_pid, root_alive,
                  tree, stats_shown, after_queue, cfgVars, logVars, uiVars,
                  bgVars, cfg_changed >>
  /\ UNCHANGED extVars

\* what the toolbar handlers leave alone
ToolbarFrame ==
  UNCHANGED << monitoring_active, pause_updates, root_alive, timers,
               after_queue, cfgVars, logVars, uiVars, bgVars, cfg_changed,
               readings, platform, procs, cmd, calls >>

\* on_search_change: the trace on search_var, after a key typed in the entry
on_search_change ==
  /\ UiReady
  /\ \E text \in SearchTexts \ {search_var} :
       /\ search_var' = text
       /\ UpdateList(last_process_data.data, last_process_data.pass,
                     text, filter_var, sort_var, sort_reverse)
  /\ UNCHANGED << filter_var, sort_var, sort_reverse >>
  /\ ToolbarFrame

\* sort_column: a click on a column heading
sort_column ==
  /\ UiReady
  /\ sort_reverse' = ~sort_reverse
  /\ UpdateList(last_process_data.data, last_process_data.pass,
                search_var, filter_var, sort_var, ~sort_reverse)
  /\ UNCHANGED << search_var, filter_var, sort_var >>
  /\ ToolbarFrame

\* line 627: the lambda bound to the sort combobox
on_sort_selected ==
  /\ UiReady
  /\ \E sort_by \in SortChoices \ {sort_var} :
       /\ sort_var' = sort_by
       /\ UpdateList(last_process_data.data, last_process_data.pass,
                     search_var, filter_var, sort_by, sort_reverse)
  /\ UNCHANGED << search_var, filter_var, sort_reverse >>
  /\ ToolbarFrame

\* line 640: the lambda bound to the filter combobox
on_filter_selected ==
  /\ UiReady
  /\ \E filter_type \in FilterChoices \ {filter_var} :
       /\ filter_var' = filter_type
       /\ UpdateList(last_process_data.data, last_process_data.pass,
                     search_var, filter_type, sort_var, sort_reverse)
  /\ UNCHANGED << search_var, sort_var, sort_reverse >>
  /\ ToolbarFrame

\* an evaluation in progress in the monitor thread learns of a configuration
\* that became current while it ran
NoteCandidate(c) ==
  cur' = IF bgpc \in {"rd_thr", "boost"}
         THEN [cur EXCEPT !.cands = @ \cup {c}] ELSE cur

\* SettingsWindow.save_settings, line 363
save_settings_enabled ==
  /\ UiReady
  /\ saves < MaxSaves
  /\ \E e \in BOOLEAN, txt \in ThresholdTexts, lvl \in SettingsLevels :
       /\ auto_boost_enabled' = e
       /\ sv' = [txt |-> txt, lvl |-> lvl, old |-> Cfg]
       /\ NoteCandidate(SaveResult(Cfg, e, txt, lvl))
       /\ cfg_changed' = (cfg_changed \/ e # auto_boost_enabled)
  /\ uipc' = "save_threshold"
  /\ saves' = saves + 1
  /\ UNCHANGED << appVars, logVars, after_queue, auto_boost_threshold,
                  auto_boost_level, bgpc, idx, processes_data, passNo,
                  threads_started, decisions, not_found, disk_res >>
  /\ UNCHANGED extVars

\* line 364; the ValueError of float() ends the handler at lines 368-369
save_settings_threshold ==
  /\ root_alive
  /\ uipc = "save_threshold"
  /\ LET f == ParseFloat(sv.txt) IN
       IF f.ok
       THEN /\ auto_boost_threshold' = f.val
            /\ cfg_changed' = (cfg_changed \/ f.val # auto_boost_threshold)
            /\ uipc' = "save_level"
       ELSE /\ uipc' = "idle"
            /\ UNCHANGED << auto_boost_threshold, cfg_changed >>
  /\ UNCHANGED << appVars, logVars, after_queue, auto_boost_enabled,
                  auto_boost_level, sv, saves, bgVars >>
  /\ UNCHANGED extVars

\* lines 365-367
save_settings_level ==
  /\ root_alive
  /\ uipc = "save_level"
  /\ auto_boost_level' = sv.lvl
  /\ cfg_changed' = (cfg_changed \/ sv.lvl # auto_boost_level)
  /\ uipc' = "idle"
  /\ UNCHANGED << appVars, logVars, after_queue, auto_boost_enabled,
                  auto_boost_threshold, sv, saves, bgVars >>
  /\ UNCHANGED extVars

\* on_closing; destroying the root discards the pending callbacks
on_closing ==
  /\ UiReady
  /\ monitoring_active' = FALSE
  /\ LogAction("closed", NoPid, TRUE)
  /\ root_alive' = FALSE
  /\ after_queue' = << >>
  /\ timers' = 0
  /\ UNCHANGED << pause_updates, last_process_data, selected_pid, tree,
                  stats_shown, cfgVars, uiVars, bgVars, cfg_changed >>
  /\ UNCHANGED extVars

(***************************************************************************)
(* The commands of the process tab and the operating system they act on.   *)
(***************************************************************************)
\* what a psutil call on process p raises, if anything
OsOutcome(p) ==
  IF ~p.alive THEN "NoSuchProcess"
  ELSE IF p.denied THEN "AccessDenied" ELSE "ok"

\* lines 52-66: the value handed to process.nice for a level name
MappedValue(plat, priority_level) ==
  IF priority_level \in DOMAIN PRIORITY_LEVELS[plat]
  THEN PRIORITY_LEVELS[plat][priority_level]
  ELSE IF plat = "Windows" THEN 128 ELSE -5

\* process.nice(value) sets the priority to value
\* (the value added to the current priority, as os.nice does)
NiceAfter_Relative(old, value) == old + value
NiceAfter(old, value) == value

\* kill_process: the value it returns for each outcome of its OS calls
\* (lines 90-95)
\* (handlers that return True)
kill_process_IgnoresErrors(outcome) == TRUE
kill_process(outcome) == outcome = "ok"

\* the attributes a command leaves alone
CommandFrame ==
  UNCHANGED << monitoring_active, pause_updates, last_process_data, root_alive,
               timers, tree, stats_shown, after_queue, cfgVars, sv, saves,
               bgVars, cfg_changed, readings, search_var, filter_var,
               sort_var, sort_reverse, platform >>

\* on_process_select: a row of the table is selected, or the selection is
\* removed
on_process_select ==
  /\ UiReady
  /\ \/ \E i \in 1..Len(tree) : selected_pid' = tree[i].pid
     \/ selected_pid' = NoPid
  /\ selected_pid' # selected_pid
  /\ UNCHANGED << logVars, uipc, procs, cmd, calls >>
  /\ CommandFrame

\* the process a psutil call on `pid` acts on: psutil.Process(None) is the
\* calling process
TargetOf(pid) == IF pid = NoPid THEN OwnPid ELSE pid

\* boost_selected_process with a process selected, up to the priority dialog
\* (lines 918-923): askstring waits in its own event loop
boost_selected_process ==
  /\ UiReady
  /\ selected_pid # NoPid
  /\ Len(calls) < MaxCmds
  /\ uipc' = "boost_dialog"
  /\ UNCHANGED << selected_pid, logVars, procs, cmd, calls >>
  /\ CommandFrame

\* the dialog is answered (lines 925-940), boost_process_priority included:
\* self.selected_pid is read again at line 934
boost_dialog_answer ==
  /\ root_alive
  /\ uipc = "boost_dialog"
  /\ \E answer \in LevelAnswers :
       LET priority == IF answer \notin DOMAIN PRIORITY_LEVELS[platform]
                       THEN "High" ELSE answer
           pid == TargetOf(selected_pid)
           p == procs[pid]
           outcome == OsOutcome(p)
           success == boost_process_priority(outcome)
           after == IF outcome = "ok"
                    THEN NiceAfter(p.nice, MappedValue(platform, priority))
                    ELSE p.nice
       IN /\ procs' = [procs EXCEPT ![pid].nice = after]
          /\ LogAction(IF success THEN "boosted" ELSE "boost_failed",
                       selected_pid, TRUE)
          /\ calls' = Append(calls,
               [fn |-> "boost", pid |-> pid, asked |-> answer,
                level |-> priority, outcome |-> outcome, ret |-> success,
                before |-> p.nice, after |-> after,
                signalled |-> FALSE, forced |-> FALSE,
                dead_after |-> ~p.alive])
  /\ uipc' = "idle"
  /\ UNCHANGED << selected_pid, cmd >>
  /\ CommandFrame

\* the record of a finished kill_process
KillRecord(pid, outcome, signalled, forced, dead) ==
  [fn |-> "kill", pid |-> pid, asked |-> "", level |-> "",
   outcome |-> outcome, ret |-> kill_process(outcome),
   before |-> procs[pid].nice, after |-> procs[pid].nice,
   signalled |-> signalled, forced |-> forced,
   dead_after |-> dead]

\* lines 962-967: what kill_selected_process does with the result
KillReport(pid, outcome) ==
  IF kill_process(outcome)
  THEN LogAction("killed", pid, TRUE)
  ELSE UNCHANGED logVars

\* kill_selected_process with a process selected, up to the confirmation
\* dialog (lines 953-957): askyesno waits in its own event loop
kill_selected_process ==
  /\ UiReady
  /\ selected_pid # NoPid
  /\ Len(calls) < MaxCmds
  /\ uipc' = "kill_confirm"
  /\ UNCHANGED << selected_pid, logVars, procs, cmd, calls >>
  /\ CommandFrame

\* the confirmation is given (lines 957-961), up to the terminate request of
\* kill_process (lines 86-87): self.selected_pid is read again at line 961.
\* A terminate request to the calling process ends the application at once.
kill_confirmed ==
  /\ root_alive
  /\ uipc = "kill_confirm"
  /\ LET pid == TargetOf(selected_pid)
         p == procs[pid]
         outcome == OsOutcome(p)
     IN IF pid = OwnPid
        THEN /\ procs' = [procs EXCEPT ![pid].signalled = TRUE,
                                       ![pid].alive = FALSE]
             /\ root_alive' = FALSE
             /\ after_queue' = << >>
             /\ timers' = 0
             /\ bgpc' = "killed"
             /\ uipc' = "idle"
             /\ disk_res' = "none"
             /\ UNCHANGED << monitoring_active, pause_updates,
                             last_process_data, tree, stats_shown, cmd,
                             calls, logVars, idx, cur, processes_data, passNo,
                             threads_started, decisions, not_found >>
        ELSE /\ IF outcome = "ok"
                THEN /\ procs' = [procs EXCEPT ![pid].signalled = TRUE]
                     /\ cmd' = [pid |-> pid]
                     /\ uipc' = "kill_sleep"
                     /\ UNCHANGED << calls, logVars >>
                ELSE /\ calls' = Append(calls,
                          KillRecord(pid, outcome, FALSE, FALSE, ~p.alive))
                     /\ KillReport(pid, outcome)
                     /\ uipc' = "idle"
                     /\ UNCHANGED << procs, cmd >>
             /\ UNCHANGED << root_alive, after_queue, timers, bgVars,
                             monitoring_active, pause_updates,
                             last_process_data, tree, stats_shown >>
  /\ UNCHANGED << selected_pid, cfgVars, sv, saves, cfg_changed, readings,
                  search_var, filter_var, sort_var, sort_reverse, platform >>

\* lines 88-89: after time.sleep(0.5), process.is_running()
kill_is_running ==
  /\ root_alive
  /\ uipc = "kill_sleep"
  /\ IF procs[cmd.pid].alive
     THEN /\ uipc' = "kill_kill"
          /\ UNCHANGED << cmd, calls, logVars >>
     ELSE /\ calls' = Append(calls, KillRecord(cmd.pid, "ok", TRUE, FALSE, TRUE))
          /\ KillReport(cmd.pid, "ok")
          /\ uipc' = "idle"
          /\ cmd' = NoCmd
  /\ UNCHANGED << selected_pid, procs >>
  /\ CommandFrame

\* lines 90-95: process.kill(), and the return
kill_force ==
  /\ root_alive
  /\ uipc = "kill_kill"
  /\ LET outcome == OsOutcome(procs[cmd.pid]) IN
       /\ procs' = IF outcome = "ok"
                   THEN [procs EXCEPT ![cmd.pid].alive = FALSE]
                   ELSE procs
       /\ calls' = Append(calls,
            KillRecord(cmd.pid, outcome, TRUE, outcome = "ok", TRUE))
       /\ KillReport(cmd.pid, outcome)
  /\ uipc' = "idle"
  /\ cmd' = NoCmd
  /\ UNCHANGED selected_pid
  /\ CommandFrame

\* a process ends: it honours the terminate request, or exits on its own
Proc_Exits ==
  /\ \E pid \in Pids :
       /\ procs[pid].alive
       /\ procs' = [procs EXCEPT ![pid].alive = FALSE]
  /\ UNCHANGED << selected_pid, logVars, uipc, cmd, calls >>
  /\ CommandFrame

\* clear_history with the confirmation given
clear_history ==
  /\ UiReady
  /\ action_history # << >>
  /\ action_history' = << >>
  /\ history_text' = << >>
  /\ UNCHANGED << appended, selected_pid, uipc, procs, cmd, calls >>
  /\ CommandFrame

\* main, lines 1218-1219, and the daemon flag of line 1193: once the root is
\* destroyed mainloop returns, main returns and the interpreter exits without
\* joining the monitor thread, which is stopped wherever it is
Interpreter_Exit ==
  /\ ~root_alive
  /\ bgpc \notin {"terminated", "killed"}
  /\ bgpc' = "killed"
  /\ UNCHANGED << appVars, cfgVars, logVars, uiVars, after_queue, idx, cur,
                  processes_data, passNo, threads_started, decisions,
                  not_found, cfg_changed >>
  /\ UNCHANGED extVars
  /\ disk_res' = "none"

(***************************************************************************)
(* Specifications.                                                         *)
(*                                                                         *)
(* Spec: the monitor thread against save_settings and on_closing.  The     *)
(* callbacks that the main loop runs later write only last_process_data,   *)
(* tree, selected_pid and stats_shown, which nothing in this               *)
(* specification reads; they are exercised in SpecPublish.                 *)
(***************************************************************************)
Next ==
  \/ Monitor_While
  \/ Monitor_SystemStats
  \/ Monitor_NextProcess
  \/ Monitor_ReadThreshold
  \/ Monitor_AutoBoost
  \/ Monitor_Publish
  \/ Monitor_Sleep
  \/ save_settings_enabled
  \/ save_settings_threshold
  \/ save_settings_level
  \/ on_closing
  \/ Interpreter_Exit

Spec == Init /\ [][Next]_vars

\* SpecLoop: the monitor thread against on_closing and the exit after it.  No handler of
\* this specification writes the settings: it starts from the settings as
\* constructed and from those a completed save_settings leaves (auto-boost
\* ticked or not, threshold text "50.0" or "74", level "High"), and every
\* pass then runs with the settings unchanged.
InitLoopSettings ==
  /\ auto_boost_enabled \in BOOLEAN
  /\ auto_boost_threshold \in {500, 740}
  /\ auto_boost_level = "High"
  /\ auto_boost_enabled = FALSE => auto_boost_threshold = 500

InitLoop == InitLoopSettings /\ InitHistory /\ InitRest /\ InitHost

NextLoop ==
  \/ Monitor_While
  \/ Monitor_SystemStats
  \/ Monitor_NextProcess
  \/ Monitor_ReadThreshold
  \/ Monitor_AutoBoost
  \/ Monitor_Publish
  \/ Monitor_Sleep
  \/ on_closing
  \/ Interpreter_Exit

SpecLoop == InitLoop /\ [][NextLoop]_vars

\* the steps of the daemon thread of line 1193
MonitorThread ==
  \/ Monitor_While
  \/ Monitor_SystemStats
  \/ Monitor_NextProcess
  \/ Monitor_ReadThreshold
  \/ Monitor_AutoBoost
  \/ Monitor_Publish
  \/ Monitor_Sleep

\* SpecLoopFair: SpecLoop with the monitor thread scheduled fairly: it is a
\* started thread whose every blocking call (sleep, cpu_percent) returns, so
\* while it has a next statement it eventually executes it
SpecLoopFair == InitLoop /\ [][NextLoop]_vars /\ WF_vars(MonitorThread)

\* SpecLog: as SpecLoop with auto-boost on, started late in a session, when
\* the log already holds LogPrefill entries (the start entry and earlier
\* auto-boosts); the capacity of the deque is reached within the bounds
LogPrefill == 98
PrefillEntry(i) == IF i = 1 THEN StartedEntry
                   ELSE [n |-> i, kind |-> "auto", pid |-> 1]
InitLog ==
  /\ auto_boost_enabled = TRUE
  /\ auto_boost_threshold = 500
  /\ auto_boost_level = "High"
  /\ action_history = [i \in 1..LogPrefill |-> PrefillEntry(i)]
  /\ history_text = action_history
  /\ appended = action_history
  /\ InitRest
  /\ InitHost

SpecLog == InitLog /\ [][NextLoop]_vars

\* SpecScore: as SpecLoop with auto-boost on at threshold 50.0, on a host
\* where psutil could not read the cpu or the memory of some process
InitScore ==
  /\ auto_boost_enabled = TRUE
  /\ auto_boost_threshold = 500
  /\ auto_boost_level = "High"
  /\ readings \in {[cpu |-> {None, 90}, ram |-> {50}],
                    [cpu |-> {90}, ram |-> {None, 50}]}
  /\ platform = "Linux"
  /\ procs = [pid \in Pids \cup {OwnPid} |-> [alive |-> TRUE, denied |-> FALSE,
                                 nice |-> NormalPriority("Linux"),
                                 signalled |-> FALSE]]
  /\ cmd = NoCmd
  /\ calls = << >>
  /\ InitHistory
  /\ InitRest

SpecScore == InitScore /\ [][NextLoop]_vars

\* SpecPublish: the monitor thread (auto-boost left off, as constructed)
\* against the main loop that runs the handed-over callbacks
NextPublish ==
  \/ Monitor_While
  \/ Monitor_SystemStats
  \/ Monitor_NextProcess
  \/ Monitor_Publish
  \/ Monitor_Sleep
  \/ Tk_RunCallback
  \/ on_tree_click
  \/ Tk_RunTimer
  \/ on_closing
  \/ Interpreter_Exit

SpecPublish == Init /\ [][NextPublish]_vars

\* SpecPublishFair: SpecPublish with the main loop running every timer that
\* has come due: mainloop (line 1219) takes the next event whenever the
\* handler before it has returned
SpecPublishFair == Init /\ [][NextPublish]_vars /\ WF_vars(Tk_RunTimer)

\* SpecCommands: the commands of the main thread against the operating
\* system.  It starts when the first pass has listed every process (cpu 90,
\* memory 50), both of its callbacks have run and the monitor thread is in
\* the sleep of line 224, where this specification leaves it; the host is
\* either platform, and access to process 1 may be denied.
FirstList ==
  [i \in 1..NumProcs |-> [pid |-> i, cpu |-> 90, ram |-> 50, score |-> 740]]
FirstDecisions ==
  [i \in 1..NumProcs |->
     [pid |-> i, raw_cpu |-> 90, raw_ram |-> 50, score |-> 740, e |-> FALSE,
      t |-> None, l |-> "unread", called |-> FALSE, ok |-> FALSE,
      logged |-> FALSE, cands |-> {Cfg}]]

InitShown ==
  /\ InitSettings
  /\ InitHistory
  /\ monitoring_active = TRUE
  /\ pause_updates = FALSE
  /\ last_process_data = [pass |-> 1, data |-> FirstList]
  /\ selected_pid = NoPid
  /\ root_alive = TRUE
  /\ after_queue = << >>
  /\ timers = 0
  /\ tree = SortByScoreDesc(FirstList)
  /\ stats_shown = [pass |-> 1, cpu |-> 30, memory_percent |-> 40,
                    disk_percent |-> DiskSample.percent,
                    disk_total |-> DiskSample.total,
                    disk_used |-> DiskSample.used,
                    disk_free |-> DiskSample.free]
  /\ uipc = "idle"
  /\ sv = [txt |-> << >>, lvl |-> "High",
           old |-> [e |-> FALSE, t |-> 500, l |-> "High"]]
  /\ saves = 0
  /\ bgpc = "sleep"
  /\ idx = NumProcs + 1
  /\ cur = NoCur
  /\ processes_data = FirstList
  /\ passNo = 1
  /\ threads_started = 1
  /\ decisions = FirstDecisions
  /\ not_found = {}
  /\ cfg_changed = FALSE
  /\ disk_res = "none"
  /\ search_var = ""
  /\ filter_var = "All"
  /\ sort_var = "Score"
  /\ sort_reverse = FALSE
  /\ readings = [cpu |-> {90}, ram |-> {50}]

InitCommands ==
  /\ InitShown
  /\ platform \in {"Linux", "Windows"}
  /\ \E denied \in {{}, {1}} :
       procs = [pid \in Pids \cup {OwnPid} |-> [alive |-> TRUE, denied |-> pid \in denied,
                                  nice |-> NormalPriority(platform),
                                  signalled |-> FALSE]]
  /\ cmd = NoCmd
  /\ calls = << >>

NextCommands ==
  \/ on_process_select
  \/ boost_selected_process
  \/ boost_dialog_answer
  \/ kill_selected_process
  \/ kill_confirmed
  \/ kill_is_running
  \/ kill_force
  \/ Proc_Exits
  \/ clear_history
  \/ on_closing

SpecCommands == InitCommands /\ [][NextCommands]_vars

\* SpecOsCalls: as SpecCommands, with only the commands that call
\* boost_process_priority and kill_process
NextOsCalls ==
  \/ on_process_select
  \/ boost_selected_process
  \/ boost_dialog_answer
  \/ kill_selected_process
  \/ kill_confirmed
  \/ kill_is_running
  \/ kill_force
  \/ Proc_Exits

SpecOsCalls == InitCommands /\ [][NextOsCalls]_vars

\* SpecRepublish: as SpecPublish, with the toolbar handlers that show
\* last_process_data again
NextRepublish ==
  \/ Monitor_While
  \/ Monitor_SystemStats
  \/ Monitor_NextProcess
  \/ Monitor_Publish
  \/ Monitor_Sleep
  \/ Tk_RunCallback
  \/ on_tree_click
  \/ Tk_RunTimer
  \/ on_search_change
  \/ sort_column
  \/ on_sort_selected
  \/ on_filter_selected
  \/ on_closing
  \/ Interpreter_Exit

SpecRepublish == Init /\ [][NextRepublish]_vars

\* SpecDialog: the monitor thread (auto-boost left off) and the main loop,
\* with the commands of the process tab and the dialogs they wait in
NextDialog ==
  \/ Monitor_While
  \/ Monitor_SystemStats
  \/ Monitor_NextProcess
  \/ Monitor_Publish
  \/ Monitor_Sleep
  \/ Tk_RunCallback
  \/ on_process_select
  \/ boost_selected_process
  \/ boost_dialog_answer
  \/ kill_selected_process
  \/ kill_confirmed
  \/ kill_is_running
  \/ kill_force
  \/ Proc_Exits
  \/ on_closing
  \/ Interpreter_Exit

\* the application as constructed, on a host whose processes all read 9.0 %
\* cpu and 5.0 % memory
InitDialog ==
  /\ InitSettings
  /\ InitHistory
  /\ InitRest
  /\ readings = [cpu |-> {90}, ram |-> {50}]
  /\ platform = "Linux"
  /\ procs = [pid \in Pids \cup {OwnPid} |->
                [alive |-> TRUE, denied |-> FALSE,
                 nice |-> NormalPriority("Linux"), signalled |-> FALSE]]
  /\ cmd = NoCmd
  /\ calls = << >>

SpecDialog == InitDialog /\ [][NextDialog]_vars

(***************************************************************************)
(* Properties.                                                             *)
(***************************************************************************)
PidsOf(data) == [i \in 1..Len(data) |-> data[i].pid]
\* the enumerated pids up to n whose sampling did not raise, in order
SurvivorsUpTo(n) == SelectSeq([i \in 1..n |-> i], LAMBDA p : p \notin not_found)
Last(q) == q[Len(q)]
\* decisions[i] and processes_data[i] are the same process: both are
\* appended when its evaluation ends
Evaluated == 1..Len(decisions)

\* C1: in a pass during which the settings are not changed,
\* boost_process_priority is called for a sampled process exactly when
\* auto-boost is enabled and the process's score is strictly above the
\* threshold.
C1_BoostIffEnabledAndAbove ==
  ~cfg_changed =>
    \A i \in Evaluated :
      decisions[i].called <=>
        (auto_boost_enabled /\ processes_data[i].score > auto_boost_threshold)

\* C1 witness: one pass boosted a process above the threshold and left alone
\* a process whose score equals the threshold.
C1_Witness ==
  /\ ~cfg_changed
  /\ auto_boost_enabled
  /\ \E i, j \in Evaluated :
       /\ decisions[i].called
       /\ ~decisions[j].called
       /\ processes_data[j].score = auto_boost_threshold

\* C2: all the evaluations of one pass read the same enabled flag, the same
\* threshold and the same level.
C2_OnePassOneConfig ==
  \A i, j \in Evaluated :
    /\ decisions[i].e = decisions[j].e
    /\ (decisions[i].t # None /\ decisions[j].t # None)
         => decisions[i].t = decisions[j].t
    /\ (decisions[i].l # "unread" /\ decisions[j].l # "unread")
         => decisions[i].l = decisions[j].l

\* C3: what one evaluation read (enabled, threshold, level) agrees, field by
\* field, with one whole configuration: the one before a save_settings that
\* ran during the evaluation, or the one after it.
C3_NoTornConfig ==
  \A i \in Evaluated :
    \E c \in decisions[i].cands :
      /\ c.e = decisions[i].e
      /\ decisions[i].t # None => c.t = decisions[i].t
      /\ decisions[i].l # "unread" => c.l = decisions[i].l

\* C4: the system statistics on display and the process list held as
\* last_process_data come from the same pass.
C4_SamePassPublished ==
  (stats_shown.pass # 0 /\ last_process_data.pass # 0)
    => stats_shown.pass = last_process_data.pass

\* C5: an "Auto-boosted PID ..." entry is logged only for an attempt whose
\* priority change succeeded.
C5_LogOnlyOnSuccess ==
  \A i \in Evaluated : decisions[i].logged => decisions[i].ok

\* C6: action_history is the last min(count, 100) entries ever appended, in
\* the order of appending.
C6_BoundedLog ==
  LET count == Len(appended)
      kept == IF count < 100 THEN count ELSE 100
  IN action_history = SubSeq(appended, count - kept + 1, count)

\* C6 witness: more than 100 entries were appended, by the monitor thread and
\* by a command of the main thread, the monitor's last.
C6_Witness ==
  /\ Len(appended) > 100
  /\ \E i, j \in LogPrefill + 1..Len(appended) :
       /\ i < j
       /\ appended[i].kind = "closed"
       /\ appended[j].kind = "auto"

C8_LoopSurvivesFailures ==
  bgpc \in {"terminated", "killed"} => ~monitoring_active

\* C8 witness: the first pass raised before it handed anything over (nothing
\* is queued), and a second pass is running.
C8_Witness ==
  /\ monitoring_active
  /\ passNo = 2
  /\ bgpc = "sys"
  /\ after_queue = << >>

\* the monitor thread is inside a pass
InPass == bgpc \in {"sys", "iter", "rd_thr", "boost"}

\* C9: after on_closing has cleared monitoring_active no pass begins, and a
\* pass in flight runs to its end: the thread is not stopped inside it, and
\* once its enumeration is over it hands its list over and goes to its sleep.
C9_StopBeforeNextPass ==
  [][ /\ ~monitoring_active => passNo' = passNo
      /\ InPass => bgpc' # "killed"
      /\ (bgpc = "iter" /\ idx > NumProcs /\ bgpc' # bgpc)
           => /\ bgpc' = "sleep"
              /\ Len(after_queue') = Len(after_queue) + 1
    ]_vars

\* C10: one monitor thread is started, a pass begins only at the loop
\* condition, and the loop condition is reached again only from the sleep
\* that follows a pass.
C10_OnePassAtATime ==
  /\ threads_started = 1
  /\ [][ /\ threads_started' = 1
         /\ passNo' # passNo => (bgpc = "loop" /\ bgpc' = "sys")
         /\ (bgpc' = "loop" /\ bgpc # "loop")
              => bgpc \in {"sleep", "except_sleep"}
       ]_vars

\* C10 witness: the second pass has begun.
C10_Witness ==
  /\ passNo = 2
  /\ bgpc = "sys"
  /\ Len(after_queue) = 2

\* a step of the monitor thread itself (every one moves its position or its
\* loop index)
MonitorStep == << bgpc, idx >>' # << bgpc, idx >> /\ bgpc' # "killed"

\* C13: no step of the monitor thread writes a widget: the history text, the
\* process table and the system labels change only in steps of the main
\* thread.
C13_MonitorWritesNoWidget ==
  [][ MonitorStep => UNCHANGED << history_text, tree, stats_shown >> ]_vars

\* the value a reading counts as
Counted(raw) == IF raw = None THEN 0 ELSE raw
ScoreIsOwn(p) == p.score = 6 * p.cpu + 4 * p.ram

\* C18: every entry of the list being built and of every list handed over
\* has score = 0.6*cpu + 0.4*ram of its own cpu and ram, which are the
\* readings of its own process with a missing one counted as 0; and the
\* comparison with the threshold used that score.
C18_ScoreFromOwnSample ==
  /\ \A i \in Evaluated :
       LET p == processes_data[i]
           d == decisions[i]
       IN /\ p.pid = d.pid
          /\ p.cpu = Counted(d.raw_cpu)
          /\ p.ram = Counted(d.raw_ram)
          /\ ScoreIsOwn(p)
          /\ d.score = p.score
          /\ d.called => d.score > d.t
          /\ (d.e /\ ~d.called) => d.score <= d.t
  /\ \A k \in 1..Len(after_queue) :
       \A i \in 1..Len(after_queue[k].data) :
         ScoreIsOwn(after_queue[k].data[i])
  /\ bgpc \in {"rd_thr", "boost"} =>
       /\ cur.cpu = Counted(cur.raw_cpu)
       /\ cur.ram = Counted(cur.raw_ram)
       /\ ScoreIsOwn(cur)

\* C18 witness: a list was handed over that holds a process whose cpu could
\* not be read (score 20.0 from its ram alone) and a process that was
\* boosted.
C18_Witness ==
  /\ bgpc = "sleep"
  /\ after_queue # << >>
  /\ Last(after_queue).data = processes_data
  /\ \E i, j \in Evaluated :
       /\ decisions[i].raw_cpu = None
       /\ processes_data[i].score = 200
       /\ decisions[j].called

C20_OneEntryPerAttempt ==
  [][ /\ (Len(decisions') = Len(decisions) + 1 /\ Last(decisions').called)
           => /\ Len(appended') = Len(appended) + 1
              /\ Last(appended').kind = "auto"
              /\ Last(appended').pid = Last(decisions').pid
              /\ Last(action_history') = Last(appended')
      /\ (Len(appended') > Len(appended) /\ Last(appended').kind = "auto")
           => /\ Len(decisions') = Len(decisions) + 1
              /\ Last(decisions').called
    ]_vars

\* C20 witness: the first pass made one attempt that failed and one that
\* succeeded, and the log holds the start entry and one entry for each.
C20_Witness ==
  /\ passNo = 1
  /\ Len(appended) = 3
  /\ \E i, j \in Evaluated :
       /\ decisions[i].called /\ ~decisions[i].ok
       /\ decisions[j].called /\ decisions[j].ok

\* C11: the pass of the list held as last_process_data never decreases; a
\* search, sort or filter change shows the list again and leaves
\* last_process_data what it was, and so does a callback that arrives while
\* updates are paused.
C11_MonotonicPublication ==
  [][ /\ last_process_data'.pass >= last_process_data.pass
      /\ (<< search_var, filter_var, sort_var, sort_reverse >>'
             # << search_var, filter_var, sort_var, sort_reverse >>)
           => last_process_data' = last_process_data
      /\ (pause_updates /\ pause_updates')
           => last_process_data' = last_process_data
    ]_vars

\* C11 witness: the list of the second pass is current, the toolbar has
\* shown it with a search text, a filter and the direction flipped, and
\* updates are paused.
C11_Witness ==
  /\ last_process_data.pass = 2
  /\ search_var # ""
  /\ filter_var # "All"
  /\ sort_reverse
  /\ pause_updates
  /\ Len(tree) < Len(last_process_data.data)

\* C12: every step leaves action_history as it is or appends one entry to
\* it, dropping the oldest when it is full; none removes a newer entry or
\* empties it.
C12_AppendOnly ==
  [][ \/ action_history' = action_history
      \/ /\ action_history' # << >>
         /\ action_history' = DequeAppend(action_history, Last(action_history'))
    ]_vars

BoostCalls == {i \in 1..Len(calls) : calls[i].fn = "boost"}
KillCalls == {i \in 1..Len(calls) : calls[i].fn = "kill"}

\* C14: a kill_process that found the process still running after the grace
\* period and killed it returns True; and so does every kill_process that
\* delivered its terminate request and left the process dead.
C14_KillReportsDeath ==
  \A i \in KillCalls :
    /\ calls[i].forced => calls[i].ret
    /\ (calls[i].signalled /\ calls[i].dead_after) => calls[i].ret

\* C15: a boost of a process that exists and is accessible returns True and
\* leaves it at the value mapped for the level; a second boost of the same
\* process to the same level, right after, returns True too and leaves the
\* priority what the first made it.
C15_ReboostIdempotent ==
  /\ \A i \in BoostCalls :
       calls[i].outcome = "ok"
         => /\ calls[i].ret
            /\ calls[i].after = MappedValue(platform, calls[i].level)
  /\ \A i \in BoostCalls :
       (/\ i + 1 \in BoostCalls
        /\ calls[i + 1].pid = calls[i].pid
        /\ calls[i + 1].level = calls[i].level
        /\ calls[i].outcome = "ok"
        /\ calls[i + 1].outcome = "ok")
         => /\ calls[i].ret /\ calls[i + 1].ret
            /\ calls[i + 1].before = calls[i].after
            /\ calls[i + 1].after = calls[i].after

\* C15 witness: a process at normal priority was boosted to Low twice in a
\* row, and both calls found it alive and accessible.
C15_Witness ==
  /\ Len(calls) = 2
  /\ calls[1].fn = "boost" /\ calls[2].fn = "boost"
  /\ calls[1].pid = calls[2].pid
  /\ calls[1].level = "Low" /\ calls[2].level = "Low"
  /\ calls[1].outcome = "ok" /\ calls[2].outcome = "ok"
  /\ calls[1].before = NormalPriority(platform)

\* C16: a manual boost asked for with a level that is no key of the
\* platform's map fails and leaves the priority of the process alone.
C16_UnsupportedReported ==
  \A i \in BoostCalls :
    calls[i].asked \notin DOMAIN PRIORITY_LEVELS[platform]
      => /\ ~calls[i].ret
         /\ calls[i].after = calls[i].before

\* C17: boost_process_priority and kill_process return True or False; they
\* return False when the process does not exist or access to it is denied,
\* and True only when none of their OS calls raised.
C17_ErrorsReturned ==
  \A i \in 1..Len(calls) :
    /\ calls[i].ret \in BOOLEAN
    /\ calls[i].outcome \in {"NoSuchProcess", "AccessDenied"} => ~calls[i].ret
    /\ calls[i].ret => calls[i].outcome = "ok"
    /\ (~calls[i].ret /\ calls[i].fn = "boost")
         => calls[i].after = calls[i].before

\* C17 witness: a boost was denied access and a kill found its process
\* gone; both returned False.
C17_Witness ==
  /\ \E i \in BoostCalls :
       calls[i].outcome = "AccessDenied" /\ ~calls[i].ret
  /\ \E i \in KillCalls :
       calls[i].outcome = "NoSuchProcess" /\ ~calls[i].ret

\* C21: no entry of the list being built comes from a process whose cpu or
\* memory reading was refused: such a process is left out of the list and is
\* not considered for auto-boost (psutil hands a refused field over as None,
\* which lines 191-193 replace by 'N/A' and 0.0).
C21_DeniedExcluded ==
  \A i \in Evaluated :
    decisions[i].raw_cpu # None /\ decisions[i].raw_ram # None

\* C23: a pass is left only into one of the two sleeps (line 224 after a
\* completed pass, line 227 in the handler of a failed one); a sleep is left
\* only to the loop condition; and the loop condition is left only into the
\* next pass or out of the loop: one delay lies between two passes and none
\* is added or left out.
C23_OneDelayBetweenPasses ==
  [][ /\ (InPass /\ ~InPass' /\ bgpc' # "killed")
           => bgpc' \in {"sleep", "except_sleep"}
      /\ (bgpc \in {"sleep", "except_sleep"} /\ bgpc' # bgpc)
           => bgpc' \in {"loop", "killed"}
      /\ (bgpc = "loop" /\ bgpc' # "loop")
           => bgpc' \in {"sys", "terminated", "killed"}
      /\ passNo' # passNo => (bgpc = "loop" /\ bgpc' = "sys")
    ]_vars

\* C23 witness: the first pass was cut short by an exception (it handed over
\* less than its two callbacks) and, after the handler's sleep, the second
\* pass has begun.
C23_Witness ==
  /\ passNo = 2
  /\ bgpc = "sys"
  /\ root_alive
  /\ Len(after_queue) < 2

\* C25: when save_settings ends at the ValueError of float(), the enabled
\* flag, the threshold and the level are all what they were before Save was
\* pressed.
C25_RejectedSaveChangesNothing ==
  [][ (uipc = "save_threshold" /\ uipc' = "idle") => Cfg' = sv.old ]_vars

\* C26: every process for which the pass called boost_process_priority is in
\* the list the pass is building, whether the boost succeeded or not and
\* whether or not its log entry could be written.
C26_BoostedStaysListed ==
  \A i \in Evaluated :
    decisions[i].called
      => \E j \in 1..Len(processes_data) :
           processes_data[j].pid = decisions[i].pid

\* C26 witness: the window is closed, the pass in flight boosted a process,
\* the log entry could not be written to the history widget, and the process
\* is the last entry of the list.
C26_Witness ==
  /\ ~root_alive
  /\ Len(decisions) >= 1
  /\ Last(decisions).called
  /\ Last(appended).kind = "auto"
  /\ Len(history_text) < Len(appended)
  /\ Len(processes_data) >= 1
  /\ Last(processes_data).pid = Last(decisions).pid

\* C30: while the window exists the history view holds the entries of
\* action_history, in the same order, whatever the number of entries logged.
C30_ViewEqualsHistory ==
  root_alive => history_text = action_history

\* the six level names of the platform-independent enumeration
LevelNames ==
  {"Very High", "High", "Above Normal", "Normal", "Below Normal", "Low"}

\* C24: a boost asked for with one of the six level names finds that name in
\* the platform's map and sets the process to the value the map gives for
\* it, on either platform.
C24_EveryLevelMapped ==
  \A i \in BoostCalls :
    (calls[i].asked \in LevelNames /\ calls[i].outcome = "ok")
      => /\ calls[i].asked \in DOMAIN PRIORITY_LEVELS[platform]
         /\ calls[i].level = calls[i].asked
         /\ calls[i].after = PRIORITY_LEVELS[platform][calls[i].asked]

\* C22: once monitoring_active is cleared the monitor thread comes to an
\* end: it leaves the loop at the loop condition, also after a pass in
\* flight has failed on the destroyed root, unless the exit of the
\* interpreter ends it first.
C22_StopTerminates ==
  ~monitoring_active ~> bgpc \in {"terminated", "killed"}

\* C22 witness: the window was closed during a pass, the pass went on (it
\* logged an auto-boost after the closing entry), failed to hand over its
\* list to the destroyed root, and the thread has left the loop.
C22_Witness ==
  /\ bgpc = "terminated"
  /\ ~root_alive
  /\ passNo >= 1
  /\ Last(appended).kind = "auto"
  /\ \E i \in 1..Len(appended) : appended[i].kind = "closed"

\* C27: a process list whose callback runs while pause_updates is set is
\* dropped: last_process_data, the table and the selection stay as they are
\* and the callback is gone from the queue; and a pause set by a tree click
\* is cleared again while the window exists.
C27_PausedListDiscarded ==
  /\ [][ ( /\ Len(after_queue') = Len(after_queue) - 1
           /\ root_alive'
           /\ Head(after_queue).fn = "update_process_list"
           /\ pause_updates )
         => /\ last_process_data' = last_process_data
            /\ tree' = tree
            /\ selected_pid' = selected_pid
            /\ after_queue' = Tail(after_queue)
       ]_vars
  /\ (pause_updates ~> (~pause_updates \/ ~root_alive))

\* C27 witness: the list of the first pass was delivered during a pause and
\* dropped (nothing is left in the queue and last_process_data is still the
\* initial one), and the timer of the click has cleared the pause.
C27_Witness ==
  /\ passNo = 1
  /\ bgpc = "sleep"
  /\ after_queue = << >>
  /\ last_process_data.pass = 0
  /\ root_alive
  /\ ~pause_updates
  /\ timers = 0

\* C28: last_process_data changes only when a process list is accepted, and
\* then it becomes that list as the pass handed it over; a search, filter or
\* sort change leaves its entries and their order alone; and its entries are
\* always in the order of the enumeration, whatever the table shows.
C28_SnapshotUntouched ==
  /\ [](\A i, j \in 1..Len(last_process_data.data) :
          i < j => last_process_data.data[i].pid < last_process_data.data[j].pid)
  /\ [][ /\ ( /\ Len(after_queue') = Len(after_queue) - 1
              /\ root_alive'
              /\ Head(after_queue).fn = "update_process_list"
              /\ ~pause_updates )
            => last_process_data' = [pass |-> Head(after_queue).pass,
                                     data |-> Head(after_queue).data]
         /\ (<< search_var, filter_var, sort_var, sort_reverse >>'
                # << search_var, filter_var, sort_var, sort_reverse >>)
            => last_process_data'.data = last_process_data.data
         /\ last_process_data' # last_process_data
            => /\ Len(after_queue') = Len(after_queue) - 1
               /\ root_alive'
               /\ Head(after_queue).fn = "update_process_list"
       ]_vars

\* C28 witness: a list of two processes is stored in enumeration order while
\* the table, sorted by PID in reverse, shows them the other way round.
C28_Witness ==
  /\ last_process_data.pass >= 1
  /\ Len(last_process_data.data) = 2
  /\ last_process_data.data[1].pid = 1
  /\ Len(tree) = 2
  /\ tree[1].pid = 2
  /\ sort_var = "PID"
  /\ sort_reverse

====
